---- MODULE Spec2Model ----
(***************************************************************************)
(* MikroTik BLE tag integration: the payload decoder                       *)
(* (MikroTikBLETagSensor.parse_mikrotik_data), the sensor entity that      *)
(* feeds it from BLE advertisements, the scan task's life cycle and the    *)
(* config flow that stores the MAC address the entity filters on.          *)
(*                                                                         *)
(* Representation of Python values:                                        *)
(*   bytes        a sequence of integers 0..255                            *)
(*   str          a sequence of one-character strings                      *)
(*   float        Float(n): the value n/256 (every float the decoder makes *)
(*                is a 16-bit integer divided by 256.0, which is exact)    *)
(*   int, bool    IntVal(n), Bool(b)                                        *)
(*   None         None                                                     *)
(*   dict         a function from keys to values; {} is EmptyDict          *)
(***************************************************************************)
EXTENDS Integers, Sequences, FiniteSets, TLC

VARIABLES
    data,            \* decoder run: the bytes handed to parse_mikrotik_data
    attributes,      \* decoder run: the dict parse_mikrotik_data returned
    dpc,             \* decoder run: "ready" before the call, "parsed" after
    flow,            \* "form", "created" (entry stored), "setup", "added"
    errors,          \* config flow: errors["mac"] of the form shown last
    entry_mac,       \* config_entry.data[CONF_MAC], as the user typed it
    _mac,            \* MikroTikBLETagSensor._mac
    _attribute,      \* MikroTikBLETagSensor._attribute
    _state,          \* MikroTikBLETagSensor._state
    _scanner,        \* MikroTikBLETagSensor._scanner and the BleakScanner's state
    _scan_task,      \* MikroTikBLETagSensor._scan_task and the task's position
    registered,      \* the detection callback is registered on the scanner
    cancel_requested,\* Task.cancel() was called on a task that was not done
    rm,              \* position of async_will_remove_from_hass
    writes,          \* number of async_write_ha_state calls
    parse_arg        \* argument of the entity's latest parse_mikrotik_data call

vars == <<data, attributes, dpc, flow, errors, entry_mac, _mac, _attribute, _state,
          _scanner, _scan_task, registered, cancel_requested, rm, writes,
          parse_arg>>

decoderVars == <<data, attributes, dpc>>

entityVars == <<flow, errors, entry_mac, _mac, _attribute, _state, _scanner,
                _scan_task, registered, cancel_requested, rm, writes,
                parse_arg>>

(***************************************************************************)
(* Python values                                                           *)
(***************************************************************************)
None == [kind |-> "None"]

Float(n) == [kind |-> "float", n256 |-> n]

IntVal(n) == [kind |-> "int", v |-> n]

Bool(b) == [kind |-> "bool", v |-> b]

Str(s) == [kind |-> "str", chars |-> s]

EmptyDict == [k \in {} |-> None]

\* dict.get(key): the value, or None when the key is missing
Get(d, key) == IF key \in DOMAIN d THEN d[key] ELSE None

\* a & b on non-negative integers
RECURSIVE BitAnd(_, _)
BitAnd(a, b) ==
    IF a = 0 \/ b = 0 THEN 0
    ELSE (IF a % 2 = 1 /\ b % 2 = 1 THEN 1 ELSE 0)
         + 2 * BitAnd(a \div 2, b \div 2)

(***************************************************************************)
(* Flag bit masks                                                          *)
(***************************************************************************)
FLAG_REED_SWITCH == 1

FLAG_ACCEL_TILT == 2

FLAG_ACCEL_FREE_FALL == 4

FLAG_IMPACT_X == 8

FLAG_IMPACT_Y == 16

FLAG_IMPACT_Z == 32

PAYLOAD_LEN == 18

\* flag == MASK instead of bool(flag & MASK)
FlagSet_whole_byte(flag, mask) == Bool(flag = mask)

\* bool(flag & MASK)
FlagSet(flag, mask) == Bool(BitAnd(flag, mask) # 0)

(***************************************************************************)
(* struct.unpack('<BBHhhhhIBB', data)                                      *)
(***************************************************************************)
\* 'H': unsigned 16-bit little-endian word at 1-based offset i
U16(d, i) == d[i] + 256 * d[i + 1]

\* 'h': signed 16-bit little-endian word at 1-based offset i
S16(d, i) == IF U16(d, i) > 32767 THEN U16(d, i) - 65536 ELSE U16(d, i)

\* 'I': unsigned 32-bit little-endian word u at 1-based offset i.  The model
\* checker's integers are 32-bit signed, so u is carried as the pair
\* q128 = u // 128, r128 = u % 128 (u = 128 * q128 + r128).
U32(d, i) ==
    [q128 |-> (d[i] \div 128) + 2 * d[i + 1] + 512 * d[i + 2]
              + 131072 * d[i + 3],
     r128 |-> d[i] % 128]

\* struct.calcsize('<BBHhhhhIBB') = 1+1+2+2+2+2+2+4+1+1
StructSize == 18

\* struct.unpack raises struct.error unless len(data) == calcsize
struct_unpack(d) ==
    IF Len(d) # StructSize THEN [raised |-> TRUE]
    ELSE [raised          |-> FALSE,
          payload_version |-> d[1],
          encryption_flag |-> d[2],
          salt            |-> U16(d, 3),
          acc_x_raw       |-> S16(d, 5),
          acc_y_raw       |-> S16(d, 7),
          acc_z_raw       |-> S16(d, 9),
          temperature_raw |-> S16(d, 11),
          uptime          |-> U32(d, 13),
          flag            |-> d[17],
          battery         |-> d[18]]

\* struct.unpack_from: accepts a buffer longer than the format
struct_unpack_from(d) ==
    IF Len(d) < StructSize THEN [raised |-> TRUE]
    ELSE struct_unpack(SubSeq(d, 1, StructSize))

(***************************************************************************)
(* The conversions nested in parse_mikrotik_data                           *)
(***************************************************************************)
\* ((value & 0xFF) << 8) | ((value >> 8) & 0xFF); Python's & and >> on a
\* negative int act on its two's complement, i.e. floor division and modulo
swap_octets(value) == (value % 256) * 256 + ((value \div 256) % 256)

convert_acceleration_null(value) ==
    LET swapped_value == swap_octets(value)
        acceleration  == swapped_value
    IN IF acceleration < -16 * 256 \/ acceleration > 16 * 256
       THEN None
       ELSE Float(acceleration)

convert_acceleration(value) ==
    LET swapped_value == swap_octets(value)
        acceleration  == swapped_value          \* / 256.0
    IN IF acceleration < -16 * 256 \/ acceleration > 16 * 256
       THEN Float(0)
       ELSE Float(acceleration)

convert_temperature_unsigned(value) ==
    LET swapped_value == swap_octets(value)
        temperature_celsius == swapped_value
    IN IF temperature_celsius < -50 * 256 \/ temperature_celsius > 100 * 256
       THEN None
       ELSE Float(temperature_celsius)

convert_temperature(value) ==
    LET swapped_value == swap_octets(value)
        signed_value  == IF swapped_value > 32767   \* 0x7FFF
                         THEN swapped_value - 65536 \* 0x10000
                         ELSE swapped_value
        temperature_celsius == signed_value     \* / 256.0
    IN IF temperature_celsius < -50 * 256 \/ temperature_celsius > 100 * 256
       THEN None
       ELSE Float(temperature_celsius)

convert_battery(value) ==
    IF value < 0 \/ value > 100 THEN None ELSE IntVal(value)

\* str(n) for n >= 0
RECURSIVE Digits(_)
Digits(n) ==
    LET digit == SubSeq(<<"0", "1", "2", "3", "4", "5", "6", "7", "8", "9">>,
                        (n % 10) + 1, (n % 10) + 1)
    IN IF n < 10 THEN digit ELSE Digits(n \div 10) \o digit

\* days, hours, minutes, seconds of convert_uptime, for u = 128*q128 + r128:
\* 24 * 3600 = 128 * 675, so u // 86400 = q128 // 675 and
\* u % 86400 = 128 * (q128 % 675) + r128
uptime_parts_no_hour_mod(u) ==
    LET days    == u.q128 \div 675
        rem_day == 128 * (u.q128 % 675) + u.r128
        hours   == rem_day \div 3600
        minutes == rem_day \div 60
        seconds == rem_day % 60
    IN [days |-> days, hours |-> hours, minutes |-> minutes,
        seconds |-> seconds]

uptime_parts(u) ==
    LET days     == u.q128 \div 675
        rem_day  == 128 * (u.q128 % 675) + u.r128
        hours    == rem_day \div 3600
        rem_hour == rem_day % 3600
        minutes  == rem_hour \div 60
        seconds  == rem_hour % 60
    IN [days |-> days, hours |-> hours, minutes |-> minutes,
        seconds |-> seconds]

\* f"{days}d {hours}h {minutes}m {seconds}s"
convert_uptime(uptime_seconds) ==
    LET p == uptime_parts(uptime_seconds)
    IN Str(Digits(p.days) \o <<"d", " ">> \o Digits(p.hours) \o <<"h", " ">>
           \o Digits(p.minutes) \o <<"m", " ">> \o Digits(p.seconds)
           \o <<"s">>)

\* math.sqrt(acc_x**2 + acc_y**2 + acc_z**2): the root is kept symbolic,
\* Sqrt(r) stands for sqrt(r) / 256
Sqrt(r) == [kind |-> "float", sqrt_of |-> r]

calculate_total_acceleration(acc_x, acc_y, acc_z) ==
    IF acc_x = None \/ acc_y = None \/ acc_z = None
    THEN None
    ELSE Sqrt(acc_x.n256 * acc_x.n256 + acc_y.n256 * acc_y.n256
              + acc_z.n256 * acc_z.n256)

\* the dict built at the end of parse_mikrotik_data from the unpacked fields
Record(f) ==
    LET acc_x_converted == convert_acceleration(f.acc_x_raw)
        acc_y_converted == convert_acceleration(f.acc_y_raw)
        acc_z_converted == convert_acceleration(f.acc_z_raw)
    IN [acceleration_x       |-> acc_x_converted,
        acceleration_y       |-> acc_y_converted,
        acceleration_z       |-> acc_z_converted,
        total_acceleration   |-> calculate_total_acceleration(
                                     acc_x_converted, acc_y_converted,
                                     acc_z_converted),
        temperature          |-> convert_temperature(f.temperature_raw),
        uptime               |-> convert_uptime(f.uptime),
        flag_reed_switch     |-> FlagSet(f.flag, FLAG_REED_SWITCH),
        flag_accel_tilt      |-> FlagSet(f.flag, FLAG_ACCEL_TILT),
        flag_accel_free_fall |-> FlagSet(f.flag, FLAG_ACCEL_FREE_FALL),
        flag_impact_x        |-> FlagSet(f.flag, FLAG_IMPACT_X),
        flag_impact_y        |-> FlagSet(f.flag, FLAG_IMPACT_Y),
        flag_impact_z        |-> FlagSet(f.flag, FLAG_IMPACT_Z),
        battery              |-> convert_battery(f.battery)]

\* a variant that reads the first 18 bytes of a longer buffer
parse_mikrotik_data_prefix(d) ==
    IF Len(d) < PAYLOAD_LEN THEN EmptyDict
    ELSE LET f == struct_unpack_from(d)
         IN IF f.raised THEN EmptyDict ELSE Record(f)

\* parse_mikrotik_data: {} for a wrong length and for any exception
parse_mikrotik_data(d) ==
    IF Len(d) # PAYLOAD_LEN THEN EmptyDict
    ELSE LET f == struct_unpack(d)
         IN IF f.raised THEN EmptyDict ELSE Record(f)

(***************************************************************************)
(* Decoder run: one payload, one call of parse_mikrotik_data               *)
(***************************************************************************)
\* longest buffer of a wrong length handed to the decoder
MaxLen == 20

\* low-order bytes tried next to a fully enumerated byte
EdgeBytes == {0, 1, 127, 128, 255}

Byte == 0 .. 255

\* a payload of 18 zero bytes with battery = 50
BasePayload == [i \in 1 .. PAYLOAD_LEN |-> IF i = 18 THEN 50 ELSE 0]

\* d with the bytes at 1-based offsets i, i+1 replaced
With2(d, i, b1, b2) == [d EXCEPT ![i] = b1, ![i + 1] = b2]

AccelerationPayloads ==
    { With2(BasePayload, i, b1, b2) :
        i \in {5, 7, 9}, b1 \in Byte, b2 \in EdgeBytes }

AxisWords == { <<0, 0>>, <<3, 0>>, <<4, 0>>, <<16, 0>>, <<16, 1>>, <<255, 0>> }

ThreeAxisPayloads ==
    { With2(With2(With2(BasePayload, 5, x[1], x[2]), 7, y[1], y[2]),
            9, z[1], z[2]) :
        x \in AxisWords, y \in AxisWords, z \in AxisWords }

TemperaturePayloads ==
    { With2(BasePayload, 11, b1, b2) : b1 \in Byte, b2 \in EdgeBytes }

FlagPayloads ==
    { With2(BasePayload, 17, f, b) : f \in Byte, b \in {0, 50, 100, 101, 255} }

UptimeWords ==
    { <<b0, b1, b2, b3>> : b0 \in EdgeBytes, b1 \in EdgeBytes,
                           b2 \in EdgeBytes, b3 \in EdgeBytes }
    \cup { <<209, 95, 1, 0>>,      \* 90065
           <<127, 81, 1, 0>>,      \* 86399
           <<128, 81, 1, 0>>,      \* 86400
           <<59, 0, 0, 0>>, <<60, 0, 0, 0>>,
           <<15, 14, 0, 0>>,       \* 3599
           <<16, 14, 0, 0>> }      \* 3600

UptimePayloads ==
    { With2(With2(BasePayload, 13, u[1], u[2]), 15, u[3], u[4]) :
        u \in UptimeWords }

HeaderPayloads ==
    { With2(With2(BasePayload, 1, v, e), 3, s1, s2) :
        v \in {0, 1, 255}, e \in {0, 1}, s1 \in {0, 255}, s2 \in {0, 255} }

WrongLengthPayloads ==
    { [i \in 1 .. n |-> b] : n \in (0 .. MaxLen) \ {PAYLOAD_LEN},
                             b \in {0, 25, 255} }

DecoderInputs ==
    AccelerationPayloads \cup ThreeAxisPayloads \cup TemperaturePayloads
    \cup FlagPayloads \cup UptimePayloads \cup HeaderPayloads
    \cup WrongLengthPayloads

\* the entity is not constructed in a decoder run
NoEntity ==
    /\ flow = "none"
    /\ errors = "none"
    /\ entry_mac = <<>>
    /\ _mac = <<>>
    /\ _attribute = "none"
    /\ _state = None
    /\ _scanner = "None"
    /\ _scan_task = "None"
    /\ registered = FALSE
    /\ cancel_requested = FALSE
    /\ rm = "idle"
    /\ writes = 0
    /\ parse_arg = [called |-> FALSE]

DecodeInit ==
    /\ data \in DecoderInputs
    /\ attributes = EmptyDict
    /\ dpc = "ready"
    /\ NoEntity

\* attributes = self.parse_mikrotik_data(data)
Decode ==
    /\ dpc = "ready"
    /\ attributes' = parse_mikrotik_data(data)
    /\ dpc' = "parsed"
    /\ UNCHANGED <<data, entityVars>>

DecodeNext == Decode

SpecDecode == DecodeInit /\ [][DecodeNext]_vars

(***************************************************************************)
(* Properties of the decoder, checked under SpecDecode                     *)
(***************************************************************************)
RecordKeys ==
    {"acceleration_x", "acceleration_y", "acceleration_z",
     "total_acceleration", "temperature", "uptime", "flag_reed_switch",
     "flag_accel_tilt", "flag_accel_free_fall", "flag_impact_x",
     "flag_impact_y", "flag_impact_z", "battery"}

Parsed18 == dpc = "parsed" /\ Len(data) = 18

\* the two wire bytes at offsets i, i+1 read as a little-endian word and
\* byte-swapped
SwappedWord(i) ==
    LET w == data[i] + 256 * data[i + 1]
    IN (w % 256) * 256 + (w \div 256)

\* ... and taken as a two's-complement 16-bit integer
SignedSwappedWord(i) ==
    IF SwappedWord(i) > 32767 THEN SwappedWord(i) - 65536 ELSE SwappedWord(i)

AxisOffset == [acceleration_x |-> 5, acceleration_y |-> 7, acceleration_z |-> 9]

\* C1: a payload whose length is not 18 decodes to the failure value with no
\* measurement field; a payload of exactly 18 bytes decodes to a full record
\* or to the failure value; the decoder returns a value for every input.
Thm_C1_LengthContract ==
    dpc = "parsed" =>
        /\ Len(data) # 18 => attributes = EmptyDict
        /\ Len(data) = 18 =>
               attributes = EmptyDict \/ DOMAIN attributes = RecordKeys
        /\ DOMAIN attributes \subseteq RecordKeys

Wit_C1_TooLong ==
    dpc = "parsed" /\ Len(data) = 19 /\ attributes = EmptyDict

\* C2: each decoded axis equals s/256 for the byte-swapped word s taken as a
\* signed 16-bit integer when -16 <= s/256 <= 16, and 0.0 otherwise, so that
\* negative accelerations down to -16.0 are reported as negative values.
Claim_C2_SignedAcceleration ==
    Parsed18 =>
        \A axis \in DOMAIN AxisOffset :
            LET s == SignedSwappedWord(AxisOffset[axis])
            IN attributes[axis] =
                   IF -16 * 256 <= s /\ s <= 16 * 256 THEN Float(s)
                   ELSE Float(0)

\* C3: in every successful record the three axes are present and within
\* [-16.0, 16.0], an axis whose converted value is outside that range is
\* exactly 0.0, and total_acceleration is present (it is present if and only
\* if the three axes are).
Thm_C3_AxesPresentAndClamped ==
    (dpc = "parsed" /\ attributes # EmptyDict) =>
        /\ \A axis \in DOMAIN AxisOffset :
              /\ axis \in DOMAIN attributes
              /\ attributes[axis] # None
              /\ attributes[axis].kind = "float"
              /\ attributes[axis].n256 >= -16 * 256
              /\ attributes[axis].n256 <= 16 * 256
              /\ (SwappedWord(AxisOffset[axis]) > 16 * 256
                  \/ SignedSwappedWord(AxisOffset[axis]) < -16 * 256)
                     => attributes[axis] = Float(0)
        /\ "total_acceleration" \in DOMAIN attributes
        /\ attributes["total_acceleration"] # None
        /\ (attributes["total_acceleration"] # None)
               <=> (\A axis \in DOMAIN AxisOffset : attributes[axis] # None)

Wit_C3_AxisOutOfRange ==
    /\ Parsed18
    /\ data[5] = 255
    /\ attributes["acceleration_x"] = Float(0)
    /\ attributes["total_acceleration"] = Sqrt(0)

\* C4: with t the byte-swapped temperature word after two's-complement
\* correction, the temperature is absent exactly when t/256 < -50 or
\* t/256 > 100, and otherwise equals t/256; -50.0 and 100.0 are present and
\* the swapped value 0x1900 gives 25.0.
Thm_C4_Temperature ==
    Parsed18 =>
        LET t == SignedSwappedWord(11)
        IN /\ (attributes["temperature"] = None)
                  <=> (t < -50 * 256 \/ t > 100 * 256)
           /\ attributes["temperature"] # None
                  => attributes["temperature"] = Float(t)
           /\ attributes["temperature"] # Float(0) \/ t = 0
           /\ t = -50 * 256 => attributes["temperature"] = Float(-12800)
           /\ t = 100 * 256 => attributes["temperature"] = Float(25600)
           /\ SwappedWord(11) = 6400 => attributes["temperature"] = Float(6400)

Wit_C4_MinusFifty ==
    /\ Parsed18
    /\ data[11] = 206 /\ data[12] = 0                   \* swapped 0xCE00
    /\ attributes["temperature"] = Float(-50 * 256)

FlagMask ==
    [flag_reed_switch |-> 1, flag_accel_tilt |-> 2, flag_accel_free_fall |-> 4,
     flag_impact_x |-> 8, flag_impact_y |-> 16, flag_impact_z |-> 32]

\* C5: each of the six flags is the value of its own bit of the flag byte,
\* and the bits 0x40 and 0x80 do not change the record.
Thm_C5_Flags ==
    Parsed18 =>
        /\ \A name \in DOMAIN FlagMask :
               attributes[name] = Bool((data[17] \div FlagMask[name]) % 2 = 1)
        /\ \A high \in 0 .. 3 :
               parse_mikrotik_data([data EXCEPT ![17] = (data[17] % 64)
                                                        + 64 * high])
                   = attributes
        /\ data[17] % 64 = 63 =>
               \A name \in DOMAIN FlagMask : attributes[name] = Bool(TRUE)
        /\ data[17] % 64 = 0 =>
               \A name \in DOMAIN FlagMask : attributes[name] = Bool(FALSE)

Wit_C5_ReedAndImpactX ==
    /\ Parsed18
    /\ data[17] = 73                                     \* 0x09 | 0x40
    /\ \A name \in DOMAIN FlagMask :
           attributes[name]
               = Bool(name \in {"flag_reed_switch", "flag_impact_x"})

DigitValue(c) == CHOOSE i \in 0 .. 9 : Digits(i) = <<c>>

\* reads "<days>d <hours>h <minutes>m <seconds>s" back into a function from
\* the unit letter to the number written in front of it
RECURSIVE ReadUptime(_, _, _)
ReadUptime(chars, acc, out) ==
    IF chars = <<>> THEN out
    ELSE LET c == Head(chars)
         IN IF c \in {"0", "1", "2", "3", "4", "5", "6", "7", "8", "9"}
            THEN ReadUptime(Tail(chars), 10 * acc + DigitValue(c), out)
            ELSE IF c = " "
            THEN ReadUptime(Tail(chars), 0, out)
            ELSE ReadUptime(Tail(chars), 0, (c :> acc) @@ out)

\* C6: the uptime conversion yields days, hours, minutes and seconds with
\* hours < 24, minutes < 60, seconds < 60 and
\* days*86400 + hours*3600 + minutes*60 + seconds = u, for every 32-bit u.
\* (u = 128 * q + r with r < 128; sums beyond 2^31 are compared in that form.)
Thm_C6_UptimeRoundTrip ==
    Parsed18 =>
        LET p    == ReadUptime(attributes["uptime"].chars, 0, <<>>)
            q    == (data[13] \div 128) + 2 * data[14] + 512 * data[15]
                    + 131072 * data[16]
            r    == data[13] % 128
            rest == p["h"] * 3600 + p["m"] * 60 + p["s"]
        IN /\ DOMAIN p = {"d", "h", "m", "s"}
           /\ p["d"] >= 0
           /\ p["h"] >= 0 /\ p["h"] < 24
           /\ p["m"] >= 0 /\ p["m"] < 60
           /\ p["s"] >= 0 /\ p["s"] < 60
           /\ p["d"] * 675 + (rest \div 128) = q
           /\ rest % 128 = r
           /\ data[16] < 128 =>
                  p["d"] * 86400 + rest
                      = data[13] + 256 * data[14] + 65536 * data[15]
                        + 16777216 * data[16]

Wit_C6_Uptime90065 ==
    /\ Parsed18
    /\ <<data[13], data[14], data[15], data[16]>> = <<209, 95, 1, 0>>
    /\ attributes["uptime"]
           = Str(<<"1", "d", " ", "1", "h", " ", "1", "m", " ", "5", "s">>)

(***************************************************************************)
(* Strings                                                                 *)
(***************************************************************************)
DigitChars == {"0", "1", "2", "3", "4", "5", "6", "7", "8", "9"}

\* the letters that occur in the addresses of the model
ToUpper ==
    ("a" :> "A") @@ ("b" :> "B") @@ ("c" :> "C") @@ ("d" :> "D")
    @@ ("e" :> "E") @@ ("f" :> "F")

ToLower ==
    ("A" :> "a") @@ ("B" :> "b") @@ ("C" :> "c") @@ ("D" :> "d")
    @@ ("E" :> "e") @@ ("F" :> "f")

\* str.upper() and str.lower(), character by character
UpperChar(c) == IF c \in DOMAIN ToUpper THEN ToUpper[c] ELSE c

LowerChar(c) == IF c \in DOMAIN ToLower THEN ToLower[c] ELSE c

upper(s) == [i \in 1 .. Len(s) |-> UpperChar(s[i])]

lower(s) == [i \in 1 .. Len(s) |-> LowerChar(s[i])]

\* s.replace(":", "")
IsNotColon(c) == c # ":"

remove_colons(s) == SelectSeq(s, IsNotColon)

\* str.isalnum(): non-empty and every character a letter or a digit
isalnum(s) ==
    /\ Len(s) > 0
    /\ \A i \in 1 .. Len(s) :
           s[i] \in DigitChars \cup DOMAIN ToUpper \cup DOMAIN ToLower

(***************************************************************************)
(* MikroTikBLETagConfigFlow.async_step_user                                *)
(***************************************************************************)
MAC_HEX_DIGITS == 12

\* the validation of user_input["mac"]
MacAccepted(user_mac) ==
    LET mac == upper(remove_colons(user_mac))
    IN ~(Len(mac) # MAC_HEX_DIGITS \/ ~isalnum(mac))

\* twelve hex digits written in colon-separated pairs
Colons(h) ==
    <<h[1], h[2], ":", h[3], h[4], ":", h[5], h[6], ":", h[7], h[8], ":",
      h[9], h[10], ":", h[11], h[12]>>

Dashes(h) ==
    <<h[1], h[2], "-", h[3], h[4], "-", h[5], h[6], "-", h[7], h[8], "-",
      h[9], h[10], "-", h[11], h[12]>>

TagHex == <<"A", "A", "B", "B", "C", "C", "D", "D", "E", "E", "0", "F">>

\* the address the BLE stack reports for the tag, and another device's
TagAddress == Colons(TagHex)

OtherAddress ==
    Colons(<<"1", "1", "2", "2", "3", "3", "4", "4", "5", "5", "6", "6">>)

\* what the user may type into the form for the tag
MacInputs ==
    { TagAddress,                        \* AA:BB:CC:DD:EE:0F
      lower(TagAddress),                 \* aa:bb:cc:dd:ee:0f
      TagHex,                            \* AABBCCDDEE0F
      Dashes(TagHex),                    \* AA-BB-CC-DD-EE-0F
      SubSeq(TagAddress, 1, 14) }        \* AA:BB:CC:DD:EE

\* user_input is not None, the input is rejected: the form is shown again
StepUserInvalid(user_mac) ==
    /\ flow = "form"
    /\ ~MacAccepted(user_mac)
    /\ errors' = "invalid_mac"
    /\ UNCHANGED <<decoderVars, flow, entry_mac, _mac, _attribute, _state,
                   _scanner, _scan_task, registered, cancel_requested, rm,
                   writes, parse_arg>>

\* the input is accepted: async_create_entry(data=user_input)
StepUserCreate(user_mac) ==
    /\ flow = "form"
    /\ MacAccepted(user_mac)
    /\ entry_mac' = user_mac
    /\ flow' = "created"
    /\ UNCHANGED <<decoderVars, errors, _mac, _attribute, _state, _scanner,
                   _scan_task, registered, cancel_requested, rm, writes,
                   parse_arg>>

(***************************************************************************)
(* The sensor entity                                                       *)
(***************************************************************************)
\* the attributes async_setup_entry creates a sensor for
Attributes ==
    {"temperature", "battery", "rssi", "acceleration_x", "acceleration_y",
     "acceleration_z", "total_acceleration", "uptime", "flag_reed_switch",
     "flag_accel_tilt", "flag_accel_free_fall", "flag_impact_x",
     "flag_impact_y", "flag_impact_z"}

\* async_setup_entry and MikroTikBLETagSensor.__init__, for one of the sensors
async_setup_entry(attribute) ==
    /\ flow = "created"
    /\ _mac' = entry_mac
    /\ _attribute' = attribute
    /\ _state' = None
    /\ _scanner' = "None"
    /\ _scan_task' = "None"
    /\ flow' = "setup"
    /\ UNCHANGED <<decoderVars, errors, entry_mac, registered,
                   cancel_requested, rm, writes, parse_arg>>

\* async_added_to_hass: the scanner is created, the scan task is scheduled
async_added_to_hass ==
    /\ flow = "setup"
    /\ _scanner' = "created"
    /\ _scan_task' = "pending"
    /\ flow' = "added"
    /\ UNCHANGED <<decoderVars, errors, entry_mac, _mac, _attribute, _state,
                   registered, cancel_requested, rm, writes, parse_arg>>

taskUnchanged ==
    UNCHANGED <<decoderVars, flow, errors, entry_mac, _mac, _attribute,
                _state, rm, writes, parse_arg>>

\* _continuous_scan up to its first await: the callback is registered and
\* scanner.start() is called
ScanRegister ==
    /\ _scan_task = "pending"
    /\ ~cancel_requested
    /\ registered' = TRUE
    /\ _scan_task' = "starting"
    /\ UNCHANGED <<_scanner, cancel_requested>>
    /\ taskUnchanged

\* inside scanner.start(): the backend begins to deliver advertisements
ScannerStarted ==
    /\ _scan_task = "starting"
    /\ _scanner = "created"
    /\ ~cancel_requested
    /\ _scanner' = "running"
    /\ UNCHANGED <<_scan_task, registered, cancel_requested>>
    /\ taskUnchanged

\* scanner.start() returns: the task enters the sleep loop
ScanStartReturns ==
    /\ _scan_task = "starting"
    /\ _scanner = "running"
    /\ ~cancel_requested
    /\ _scan_task' = "sleeping"
    /\ UNCHANGED <<_scanner, registered, cancel_requested>>
    /\ taskUnchanged

\* scanner.start() raises: except Exception logs it and the task ends
ScanStartFails ==
    /\ _scan_task = "starting"
    /\ _scanner = "created"
    /\ ~cancel_requested
    /\ _scan_task' = "finished"
    /\ UNCHANGED <<_scanner, registered, cancel_requested>>
    /\ taskUnchanged

\* the cancellation is delivered at the task's next step: CancelledError is
\* not an Exception, so the handler of _continuous_scan does not catch it
TaskCancelled ==
    /\ cancel_requested
    /\ _scan_task \in {"pending", "starting", "sleeping"}
    /\ _scan_task' = "cancelled"
    /\ cancel_requested' = FALSE
    /\ UNCHANGED <<_scanner, registered>>
    /\ taskUnchanged

(***************************************************************************)
(* Advertisements                                                          *)
(***************************************************************************)
\* largest number of async_write_ha_state calls followed
MaxWrites == 3

\* MikroTik's manufacturer ID, 0x094F
MIKROTIK_ID == 2383

\* version 1, x = 1.0, temperature 25.0, uptime 90065, flags 0x09, battery 50
GoodPayload ==
    <<1, 0, 0, 0, 1, 0, 0, 0, 0, 0, 25, 0, 209, 95, 1, 0, 9, 50>>

\* temperature 0x7FFF and battery 101 (both out of range), flags 0x36
OddPayload ==
    <<1, 0, 0, 0, 2, 0, 255, 0, 0, 0, 127, 255, 0, 0, 0, 0, 54, 101>>

\* a frame one byte short
ShortPayload == SubSeq(GoodPayload, 1, 17)

\* 76 is another vendor's manufacturer ID (0x004C)
ManufacturerData ==
    { EmptyDict,
      (76 :> GoodPayload),
      (MIKROTIK_ID :> GoodPayload),
      (MIKROTIK_ID :> OddPayload),
      (MIKROTIK_ID :> ShortPayload),
      (76 :> GoodPayload) @@ (MIKROTIK_ID :> GoodPayload) }

Advertisements ==
    [address : {TagAddress, OtherAddress},
     manufacturer_data : ManufacturerData,
     rssi : {-60}]
    \cup [address : {TagAddress},
          manufacturer_data : {(MIKROTIK_ID :> ShortPayload)},
          rssi : {-70}]

\* a callback that does not look at the address
AddressMatches_any_device(address, mac) == TRUE

\* device.address.lower() == self._mac.lower()
AddressMatches(address, mac) == lower(address) = lower(mac)

\* _process_advertisement_data: the first 0x094F entry is parsed, the state
\* is set from the result (rssi from the advertisement) and written
_process_advertisement_data(adv) ==
    IF DOMAIN adv.manufacturer_data # {}
       /\ MIKROTIK_ID \in DOMAIN adv.manufacturer_data
    THEN LET d     == adv.manufacturer_data[MIKROTIK_ID]
             attrs == parse_mikrotik_data(d)
         IN /\ writes < MaxWrites
            /\ parse_arg' = [called |-> TRUE, data |-> d]
            /\ _state' = IF _attribute = "rssi"
                         THEN IntVal(adv.rssi)
                         ELSE Get(attrs, _attribute)
            /\ writes' = writes + 1
    ELSE UNCHANGED <<_state, writes, parse_arg>>

\* the scanner calls detection_callback(device, advertisement_data)
detection_callback(adv) ==
    /\ _scanner = "running"
    /\ registered
    /\ IF AddressMatches(adv.address, _mac)
       THEN _process_advertisement_data(adv)
       ELSE UNCHANGED <<_state, writes, parse_arg>>
    /\ UNCHANGED <<decoderVars, flow, errors, entry_mac, _mac, _attribute,
                   _scanner, _scan_task, registered, cancel_requested, rm>>

(***************************************************************************)
(* async_will_remove_from_hass                                             *)
(***************************************************************************)
removeUnchanged ==
    UNCHANGED <<decoderVars, flow, errors, entry_mac, _mac, _attribute,
                _state, registered, writes, parse_arg>>

\* self._scan_task.cancel(); cancelling a task that is done does nothing
WillRemoveCancel ==
    /\ flow = "added"
    /\ rm = "idle"
    /\ cancel_requested' = (_scan_task \notin {"finished", "cancelled"})
    /\ rm' = "awaiting"
    /\ UNCHANGED <<_scanner, _scan_task>>
    /\ removeUnchanged

\* await self._scan_task returns (or raises CancelledError, which is passed)
WillRemoveAwaited ==
    /\ rm = "awaiting"
    /\ _scan_task \in {"finished", "cancelled"}
    /\ rm' = "stopping"
    /\ UNCHANGED <<_scanner, _scan_task, cancel_requested>>
    /\ removeUnchanged

\* a teardown that returns without stopping the scanner
WillRemoveStop_not_stopped ==
    /\ rm = "stopping"
    /\ rm' = "done"
    /\ UNCHANGED <<_scanner, _scan_task, cancel_requested>>
    /\ removeUnchanged

\* await self._scanner.stop() completes and the method returns
WillRemoveStop ==
    /\ rm = "stopping"
    /\ _scanner' = "stopped"
    /\ rm' = "done"
    /\ UNCHANGED <<_scan_task, cancel_requested>>
    /\ removeUnchanged

(***************************************************************************)
(* The integration: config flow, set-up, scanning, teardown                *)
(***************************************************************************)
Init ==
    /\ data = <<>>
    /\ attributes = EmptyDict
    /\ dpc = "unused"
    /\ flow = "form"
    /\ errors = "none"
    /\ entry_mac = <<>>
    /\ _mac = <<>>
    /\ _attribute = "none"
    /\ _state = None
    /\ _scanner = "None"
    /\ _scan_task = "None"
    /\ registered = FALSE
    /\ cancel_requested = FALSE
    /\ rm = "idle"
    /\ writes = 0
    /\ parse_arg = [called |-> FALSE]

Next ==
    \/ \E user_mac \in MacInputs : StepUserInvalid(user_mac)
    \/ \E user_mac \in MacInputs : StepUserCreate(user_mac)
    \/ \E attribute \in Attributes : async_setup_entry(attribute)
    \/ async_added_to_hass
    \/ ScanRegister
    \/ ScannerStarted
    \/ ScanStartReturns
    \/ ScanStartFails
    \/ TaskCancelled
    \/ \E adv \in Advertisements : detection_callback(adv)
    \/ WillRemoveCancel
    \/ WillRemoveAwaited
    \/ WillRemoveStop

Spec == Init /\ [][Next]_vars

(***************************************************************************)
(* Properties of the entity, checked under Spec                            *)
(***************************************************************************)
\* the two addresses denote the same device, read case-insensitively
SameAddress(address, mac) == upper(address) = upper(mac)

HasMikrotikData(adv) == MIKROTIK_ID \in DOMAIN adv.manufacturer_data

\* C7: when the entity processes an advertisement of the configured device
\* whose 0x094F payload does not decode (its length is not 18), the entity's
\* state after the call equals its state before the call.
Claim_C7_BadFrameIsNoUpdate ==
    [][\A adv \in Advertisements :
          (/\ detection_callback(adv)
           /\ SameAddress(adv.address, _mac)
           /\ HasMikrotikData(adv)
           /\ Len(adv.manufacturer_data[MIKROTIK_ID]) # 18)
          => _state' = _state]_vars

Claim_C9_TeardownStopsDelivery ==
    /\ [][rm # "idle" => UNCHANGED <<_state, writes>>]_vars
    /\ [](rm = "done" =>
              _scan_task \in {"finished", "cancelled"} /\ _scanner = "stopped")

\* C9, amended: once async_will_remove_from_hass has returned no
\* advertisement changes the state or writes it, the scan task has terminated
\* (also when it had ended because the scanner failed to start) and the
\* scanner is stopped.
Thm_C9_NoDeliveryAfterTeardown ==
    /\ [][rm = "done" => UNCHANGED <<_state, writes>>]_vars
    /\ [](rm = "done" =>
              _scan_task \in {"finished", "cancelled"} /\ _scanner = "stopped")

Wit_C9_RemovedAfterUpdates ==
    /\ rm = "done"
    /\ _scan_task = "cancelled"
    /\ _scanner = "stopped"
    /\ writes > 0

\* the address of the device whose twelve hex digits the input denotes
DeviceAddressOf(user_mac) == Colons(upper(remove_colons(user_mac)))

\* C10: every MAC string the config flow accepts and stores makes the
\* sensor's address filter accept the device with that MAC.
Claim_C10_AcceptedMacMatchesDevice ==
    flow \in {"created", "setup", "added"} =>
        /\ MacAccepted(entry_mac)
        /\ lower(DeviceAddressOf(entry_mac)) = lower(entry_mac)
        /\ flow # "created" => lower(DeviceAddressOf(entry_mac)) = lower(_mac)

====
